---- MODULE Spec2Model ----
(***************************************************************************)
(* Model of the tick-driven taxi dispatch simulation (src/main.rs).        *)
(* World::run_till_done is a single sequential loop; `pc` is its position  *)
(* inside the loop body: maybe_spawn_request, distribute_unfulfilled_-     *)
(* requests, update_requests, cleanup_requests, in that order.             *)
(***************************************************************************)
EXTENDS Integers, Sequences, FiniteSets, TLC

\* ---------------------------------------------------------------- bounds
MaxRuntime == 202      \* longest horizon explored (long, deterministic runs)
MidRuntime == 104      \* horizon explored with random arrivals, capacity <= 1
ShortRuntime == 4      \* horizons 0..ShortRuntime explored with every setting
MaxCapacity == 2       \* largest max_active_requests explored
MaxTaxis == 2          \* largest number_of_taxis explored

\* ------------------------------------------------------- program constants
InitialWaitingTime == 100        \* Request::new, remaining_waiting_time
InitialFulfillmentTime == 100    \* Request::new, fulfillment_time
None == 0                        \* Option<Uuid>::None; taxi ids are 1..n

\* request_spawn_chance is an f64; it is modelled in percent.  Values below
\* 0 and above 100 stand for probabilities outside [0, 1].
Chances == {-50, 0, 50, 100, 150}
Runtimes == (0..ShortRuntime) \cup {MidRuntime, MaxRuntime}

VARIABLES
    runtime,              \* World.runtime
    age,                  \* World.age
    request_spawn_chance, \* World.request_spawn_chance (percent)
    max_active_requests,  \* World.max_active_requests
    taxis,                \* World.taxis: sequence of [id, is_occupied]
    active_requests,      \* World.active_requests: sequence of requests
    archived_requests,    \* World.archived_requests: sequence of requests
    next_uuid,            \* the next fresh request id Uuid::new_v4 hands out
    pc,                   \* position of run_till_done
    panic,                \* "none", or the panic that aborted the run
    born                  \* history: born[id] is the tick (age) in which
                          \* request id was admitted

vars == <<runtime, age, request_spawn_chance, max_active_requests, taxis,
          active_requests, archived_requests, next_uuid, pc, panic, born>>

\* ------------------------------------------------------------- entities
\* Request::new
NewRequest(id) ==
    [id |-> id,
     remaining_waiting_time |-> InitialWaitingTime,
     assigned_taxi |-> None,
     fulfillment_time |-> InitialFulfillmentTime]

\* is_alive testing the waiting budget only
is_alive_waiting_only(r) == r.remaining_waiting_time # 0

\* is_alive with `||` in place of `&&`
is_alive_either(r) == r.remaining_waiting_time # 0 \/ r.fulfillment_time # 0

\* Request::is_alive.  The budgets are u64, held here as representatives
\* modulo 2^64 (a wrapped value is a negative representative), so the
\* unsigned test `> 0` is the test `# 0`.
is_alive(r) == r.remaining_waiting_time # 0 /\ r.fulfillment_time # 0

\* Taxi::new
NewTaxi(id) == [id |-> id, is_occupied |-> FALSE]

\* World::new
Init ==
    /\ runtime \in Runtimes
    /\ request_spawn_chance \in Chances
    /\ max_active_requests \in 0..MaxCapacity
    /\ \E number_of_taxis \in 0..MaxTaxis :
           taxis = [i \in 1..number_of_taxis |-> NewTaxi(i)]
    \* random arrivals are explored on short horizons, and on the middle
    \* horizon with at most one active request
    /\ (request_spawn_chance > 0 /\ request_spawn_chance < 100)
          => \/ runtime <= ShortRuntime
             \/ runtime <= MidRuntime /\ max_active_requests <= 1
    /\ age = 0
    /\ active_requests = <<>>
    /\ archived_requests = <<>>
    /\ next_uuid = 1
    /\ pc = "loop"
    /\ panic = "none"
    /\ born = <<>>

\* ------------------------------------------------------ run_till_done loop
\* the loop condition with `<` in place of `<=`
LoopGuard_strict(a, rt) == a < rt

\* the loop condition of run_till_done
LoopGuard(a, rt) == a <= rt

\* one more iteration: info(), age += 1
BeginTick ==
    /\ pc = "loop" /\ panic = "none"
    /\ LoopGuard(age, runtime)
    /\ age' = age + 1
    /\ pc' = "spawn"
    /\ UNCHANGED <<runtime, request_spawn_chance, max_active_requests, taxis,
                   active_requests, archived_requests, next_uuid, panic, born>>

\* the loop condition is false: run_till_done returns
EndRun ==
    /\ pc = "loop" /\ panic = "none"
    /\ ~LoopGuard(age, runtime)
    /\ pc' = "done"
    /\ UNCHANGED <<runtime, age, request_spawn_chance, max_active_requests,
                   taxis, active_requests, archived_requests, next_uuid, panic,
                   born>>

\* ---------------------------------------------------- maybe_spawn_request
\* the capacity test with `<=` in place of `<`
HasCapacity_inclusive(len, max) == len <= max

\* the capacity test of maybe_spawn_request
HasCapacity(len, max) == len < max

\* Rng::gen_bool(p): the outcomes it can return; it panics for p outside
\* [0, 1]
GenBoolPanics(p) == p < 0 \/ p > 100
GenBool(p) == IF p = 0 THEN {FALSE} ELSE IF p = 100 THEN {TRUE} ELSE BOOLEAN

\* the new request inserted at the front of the list
PushActive_front(reqs, r) == <<r>> \o reqs

\* self.active_requests.push(r)
PushActive(reqs, r) == Append(reqs, r)

maybe_spawn_request ==
    /\ pc = "spawn" /\ panic = "none"
    /\ IF ~HasCapacity(Len(active_requests), max_active_requests)
       THEN \* `&&` short-circuits: no draw
            /\ pc' = "distribute"
            /\ UNCHANGED <<active_requests, next_uuid, panic, born>>
       ELSE IF GenBoolPanics(request_spawn_chance)
       THEN /\ panic' = "gen_bool"
            /\ UNCHANGED <<active_requests, next_uuid, pc, born>>
       ELSE \E draw \in GenBool(request_spawn_chance) :
            /\ active_requests' =
                  IF draw THEN PushActive(active_requests, NewRequest(next_uuid))
                          ELSE active_requests
            /\ next_uuid' = IF draw THEN next_uuid + 1 ELSE next_uuid
            /\ born' = IF draw THEN Append(born, age) ELSE born
            /\ pc' = "distribute"
            /\ UNCHANGED panic
    /\ UNCHANGED <<runtime, age, request_spawn_chance, max_active_requests,
                   taxis, archived_requests>>

\* ------------------------------------------ distribute_unfulfilled_requests
\* the search that looks at the first taxi of the pool only
FindUnoccupied_first_only(txs) ==
    IF Len(txs) >= 1 /\ ~txs[1].is_occupied THEN 1 ELSE 0

\* the search with the negation dropped: the first occupied taxi
FindUnoccupied_inverted(txs) ==
    IF \E i \in 1..Len(txs) : txs[i].is_occupied
    THEN CHOOSE i \in 1..Len(txs) :
             /\ txs[i].is_occupied
             /\ \A j \in 1..(i - 1) : ~txs[j].is_occupied
    ELSE 0

\* self.taxis.iter_mut().find(|t| !t.is_occupied): the index of the first
\* unoccupied taxi, 0 when there is none
FindUnoccupied(txs) ==
    IF \E i \in 1..Len(txs) : ~txs[i].is_occupied
    THEN CHOOSE i \in 1..Len(txs) :
             /\ ~txs[i].is_occupied
             /\ \A j \in 1..(i - 1) : txs[j].is_occupied
    ELSE 0

\* the bind that stores the request's own id in place of the taxi's
AssignRequest_own_id(r, t) == [r EXCEPT !.assigned_taxi = r.id]

\* the bind that leaves the taxi unoccupied
OccupyTaxi_forgotten(t) == t

\* the body of `if let Some(taxi) = unoccupied_taxi`: bind request r to taxi t
AssignRequest(r, t) == [r EXCEPT !.assigned_taxi = t.id]
OccupyTaxi(t) == [t EXCEPT !.is_occupied = TRUE]

\* the `for r in waiting_requests` loop from request i on; the `else` branch
\* breaks out of the loop
RECURSIVE DistributeFrom(_, _, _)
DistributeFrom(reqs, txs, i) ==
    IF i > Len(reqs)
    THEN [requests |-> reqs, taxis |-> txs]
    ELSE IF reqs[i].assigned_taxi # None
    THEN DistributeFrom(reqs, txs, i + 1)
    ELSE LET t == FindUnoccupied(txs)
         IN IF t = 0
            THEN [requests |-> reqs, taxis |-> txs]
            ELSE DistributeFrom([reqs EXCEPT ![i] = AssignRequest(reqs[i], txs[t])],
                                [txs EXCEPT ![t] = OccupyTaxi(txs[t])],
                                i + 1)

distribute_unfulfilled_requests ==
    /\ pc = "distribute" /\ panic = "none"
    /\ LET d == DistributeFrom(active_requests, taxis, 1)
       IN /\ active_requests' = d.requests
          /\ taxis' = d.taxis
    /\ pc' = "update"
    /\ UNCHANGED <<runtime, age, request_spawn_chance, max_active_requests,
                   archived_requests, next_uuid, panic, born>>

\* -------------------------------------------------------- update_requests
\* the loop body without the branch: always the waiting budget
TickDown_waiting_only(r) ==
    [r EXCEPT !.remaining_waiting_time = r.remaining_waiting_time - 1]

\* the loop body with the two branches swapped
TickDown_swapped(r) ==
    IF r.assigned_taxi # None
    THEN [r EXCEPT !.remaining_waiting_time = r.remaining_waiting_time - 1]
    ELSE [r EXCEPT !.fulfillment_time = r.fulfillment_time - 1]

\* the loop body decrementing both budgets
TickDown_both(r) ==
    [r EXCEPT !.fulfillment_time = r.fulfillment_time - 1,
              !.remaining_waiting_time = r.remaining_waiting_time - 1]

\* the body of the loop of update_requests, in wrapping u64 arithmetic
\* (representatives modulo 2^64: 0 - 1 is held as -1)
TickDown(r) ==
    IF r.assigned_taxi # None
    THEN [r EXCEPT !.fulfillment_time = r.fulfillment_time - 1]
    ELSE [r EXCEPT !.remaining_waiting_time = r.remaining_waiting_time - 1]

\* the decrement of r is `0 - 1`: a panic with overflow checks (debug
\* profile), a wrap without them (release profile)
Underflows(r) ==
    IF r.assigned_taxi # None
    THEN r.fulfillment_time = 0
    ELSE r.remaining_waiting_time = 0

\* the loop skipping the first request
UpdatedPrefix_skip_first(reqs, n) ==
    [i \in 1..Len(reqs) |-> IF i >= 2 /\ i <= n THEN TickDown(reqs[i]) ELSE reqs[i]]

\* the loop stopping one request early
UpdatedPrefix_short(reqs, n) ==
    [i \in 1..Len(reqs) |-> IF i < n THEN TickDown(reqs[i]) ELSE reqs[i]]

\* the requests after the loop ran over the first n of them
UpdatedPrefix(reqs, n) ==
    [i \in 1..Len(reqs) |-> IF i <= n THEN TickDown(reqs[i]) ELSE reqs[i]]

\* index of the first request whose decrement underflows, 0 when none does
FirstUnderflow(reqs) ==
    IF \E i \in 1..Len(reqs) : Underflows(reqs[i])
    THEN CHOOSE i \in 1..Len(reqs) :
             /\ Underflows(reqs[i])
             /\ \A j \in 1..(i - 1) : ~Underflows(reqs[j])
    ELSE 0

update_requests ==
    /\ pc = "update" /\ panic = "none"
    /\ \E overflow_checks \in BOOLEAN :
          LET u == FirstUnderflow(active_requests)
          IN IF u # 0 /\ overflow_checks
             THEN /\ active_requests' = UpdatedPrefix(active_requests, u - 1)
                  /\ panic' = "overflow"
                  /\ UNCHANGED pc
             ELSE /\ active_requests' =
                        UpdatedPrefix(active_requests, Len(active_requests))
                  /\ pc' = "cleanup"
                  /\ UNCHANGED panic
    /\ UNCHANGED <<runtime, age, request_spawn_chance, max_active_requests,
                   taxis, archived_requests, next_uuid, born>>

\* ------------------------------------------------------- cleanup_requests
\* self.taxis.iter_mut().find(|t| t.id == taxi_id): index of the first taxi
\* with that id, 0 when there is none
FindTaxi(txs, taxi_id) ==
    IF \E i \in 1..Len(txs) : txs[i].id = taxi_id
    THEN CHOOSE i \in 1..Len(txs) :
             /\ txs[i].id = taxi_id
             /\ \A j \in 1..(i - 1) : txs[j].id # taxi_id
    ELSE 0

\* the release forgotten: the taxi stays occupied
ReleaseTaxi_forgotten(t) == t

\* taxi.is_occupied = false
ReleaseTaxi(t) == [t EXCEPT !.is_occupied = FALSE]

\* the archive written at the front
PushArchived_front(arch, r) == <<r>> \o arch

\* self.archived_requests.push(r.clone())
PushArchived(arch, r) == Append(arch, r)

\* first step of cleanup_requests: the loop over active_requests from
\* request i on.  A dead request is cloned to the archive; its taxi is
\* looked up and released; `expect` panics when the taxi is not found.
RECURSIVE ArchiveFrom(_, _, _, _)
ArchiveFrom(reqs, arch, txs, i) ==
    IF i > Len(reqs)
    THEN [archived |-> arch, taxis |-> txs, panic |-> "none"]
    ELSE IF is_alive(reqs[i])
    THEN ArchiveFrom(reqs, arch, txs, i + 1)
    ELSE LET arch2 == PushArchived(arch, reqs[i])
         IN IF reqs[i].assigned_taxi = None
            THEN ArchiveFrom(reqs, arch2, txs, i + 1)
            ELSE LET t == FindTaxi(txs, reqs[i].assigned_taxi)
                 IN IF t = 0
                    THEN [archived |-> arch2, taxis |-> txs,
                          panic |-> "expect_taxi"]
                    ELSE ArchiveFrom(reqs, arch2,
                                     [txs EXCEPT ![t] = ReleaseTaxi(txs[t])],
                                     i + 1)

\* the second step forgotten: nothing is removed
Retain_all(reqs) == reqs

\* second step: self.active_requests.retain(|r| r.is_alive())
Retain(reqs) == SelectSeq(reqs, is_alive)

cleanup_requests ==
    /\ pc = "cleanup" /\ panic = "none"
    /\ LET a == ArchiveFrom(active_requests, archived_requests, taxis, 1)
       IN /\ archived_requests' = a.archived
          /\ taxis' = a.taxis
          /\ panic' = a.panic
          /\ IF a.panic = "none"
             THEN /\ active_requests' = Retain(active_requests)
                  /\ pc' = "loop"
             ELSE UNCHANGED <<active_requests, pc>>
    /\ UNCHANGED <<runtime, age, request_spawn_chance, max_active_requests,
                   next_uuid, born>>

\* ----------------------------------------------------------- specification
Next ==
    \/ BeginTick
    \/ maybe_spawn_request
    \/ distribute_unfulfilled_requests
    \/ update_requests
    \/ cleanup_requests
    \/ EndRun

Spec == Init /\ [][Next]_vars

\* the loop is the only thread of control and always takes its next step
FairSpec == Spec /\ WF_vars(Next)

\* ============================================================ properties
\* a tick boundary: the loop condition is about to be tested, or the run
\* has returned (cleanup_requests of the last tick is complete)
TickBoundary == panic = "none" /\ pc \in {"loop", "done"}

ActiveIdx == 1..Len(active_requests)
ArchivedIdx == 1..Len(archived_requests)
TaxiIdx == 1..Len(taxis)
ArchivedIds == {archived_requests[i].id : i \in ArchivedIdx}
ActiveIds == {active_requests[i].id : i \in ActiveIdx}
HasZeroBudget(r) == r.remaining_waiting_time = 0 \/ r.fulfillment_time = 0

\* the active requests that carry taxi id t
Riders(t) == {i \in ActiveIdx : active_requests[i].assigned_taxi = t}

\* C1: at every tick boundary a taxi is occupied iff exactly one active
\* request is assigned to it, no two active requests share a taxi, and
\* every assigned request refers to a taxi of the pool.
C1_MatchingBijection ==
    TickBoundary =>
        /\ \A t \in TaxiIdx :
               taxis[t].is_occupied <=> Cardinality(Riders(taxis[t].id)) = 1
        /\ \A i, j \in ActiveIdx :
               (i # j /\ active_requests[i].assigned_taxi # None)
                   => active_requests[i].assigned_taxi
                          # active_requests[j].assigned_taxi
        /\ \A i \in ActiveIdx :
               active_requests[i].assigned_taxi # None
                   => \E t \in TaxiIdx :
                          taxis[t].id = active_requests[i].assigned_taxi

\* a boundary after a served request was archived and its taxi taken by the
\* next request, while another taxi is idle
C1_Witness ==
    /\ TickBoundary
    /\ \E i \in ArchivedIdx : archived_requests[i].assigned_taxi # None
    /\ \E t \in TaxiIdx : taxis[t].is_occupied
    /\ \E t \in TaxiIdx : ~taxis[t].is_occupied
    /\ \E i \in ActiveIdx : active_requests[i].assigned_taxi # None

\* C2: at every tick boundary every active request has both budgets
\* strictly positive (within 1..100).
C2_NoDeadActive ==
    TickBoundary =>
        \A i \in ActiveIdx :
            /\ active_requests[i].remaining_waiting_time \in 1..InitialWaitingTime
            /\ active_requests[i].fulfillment_time \in 1..InitialFulfillmentTime

\* a boundary right after a request died, with another request still active
C2_Witness ==
    /\ TickBoundary
    /\ Len(archived_requests) >= 1
    /\ Len(active_requests) >= 1
    /\ \E i \in ActiveIdx : active_requests[i].fulfillment_time = 1

\* C3: a request id occurs at most once in the archive, an archived id is
\* not in the active list, and the set of archived ids never shrinks (so
\* an archived id stays excluded from the active list in all later states).
C3_ArchiveOnce ==
    /\ [](/\ \A i, j \in ArchivedIdx :
                 i # j => archived_requests[i].id # archived_requests[j].id
          /\ ArchivedIds \cap ActiveIds = {})
    /\ [][ArchivedIds \subseteq
              {archived_requests'[i].id : i \in 1..Len(archived_requests')}]_vars

\* two requests archived in different ticks while a later one is active
C3_Witness ==
    /\ TickBoundary
    /\ Len(archived_requests) >= 2
    /\ Len(active_requests) >= 1

\* C4: the arrival step adds at most one request, adds none when the active
\* list is at capacity, no other step adds one, and the active list never
\* holds more than max_active_requests requests.
C4_CapacityRespect ==
    /\ [](Len(active_requests) <= max_active_requests)
    /\ [][/\ Len(active_requests') <= Len(active_requests) + 1
          /\ Len(active_requests') > Len(active_requests) => pc = "spawn"
          /\ (pc = "spawn" /\ Len(active_requests) >= max_active_requests)
                => active_requests' = active_requests]_vars

\* the arrival step of a tick was refused although the draw always succeeds:
\* the list is full and no id was handed out in this tick
C4_Witness ==
    /\ pc = "distribute"
    /\ request_spawn_chance = 100
    /\ max_active_requests >= 1
    /\ Len(active_requests) = max_active_requests
    /\ age = max_active_requests + 1
    /\ next_uuid = max_active_requests + 1

\* request i of the active list is request j of the list after the step
SameRequestNext(i, j) == active_requests'[j].id = active_requests[i].id

\* C5: in the update step every active request stays in place with its id
\* and assignment, and exactly one budget drops by exactly 1 while the other
\* is unchanged: fulfillment_time when a taxi is assigned,
\* remaining_waiting_time otherwise.  No other step of the tick changes a
\* budget of a request that stays active.
C5_BudgetMonotonicity ==
    [][/\ (pc = "update" /\ pc' = "cleanup") =>
              /\ Len(active_requests') = Len(active_requests)
              /\ \A i \in ActiveIdx :
                    LET r == active_requests[i]
                        q == active_requests'[i]
                    IN /\ q.id = r.id
                       /\ q.assigned_taxi = r.assigned_taxi
                       /\ IF r.assigned_taxi # None
                          THEN /\ q.fulfillment_time = r.fulfillment_time - 1
                               /\ q.remaining_waiting_time = r.remaining_waiting_time
                          ELSE /\ q.remaining_waiting_time = r.remaining_waiting_time - 1
                               /\ q.fulfillment_time = r.fulfillment_time
       /\ pc # "update" =>
              \A i \in ActiveIdx : \A j \in 1..Len(active_requests') :
                  SameRequestNext(i, j) =>
                      /\ active_requests'[j].remaining_waiting_time
                             = active_requests[i].remaining_waiting_time
                      /\ active_requests'[j].fulfillment_time
                             = active_requests[i].fulfillment_time]_vars

\* after an update step: a request that waited and is now in service next
\* to a request that is still waiting
C5_Witness ==
    /\ pc = "cleanup"
    /\ \E i, j \in ActiveIdx :
          /\ active_requests[i].assigned_taxi # None
          /\ active_requests[i].remaining_waiting_time < InitialWaitingTime
          /\ active_requests[i].fulfillment_time < InitialFulfillmentTime
          /\ active_requests[j].assigned_taxi = None
          /\ active_requests[j].remaining_waiting_time < InitialWaitingTime
          /\ active_requests[j].fulfillment_time = InitialFulfillmentTime

\* every record of an admitted request, active or archived
AllRecords ==
    {active_requests[i] : i \in ActiveIdx}
        \cup {archived_requests[i] : i \in ArchivedIdx}

\* C6: every archived record has a budget equal to zero, and at every tick
\* boundary an admitted request is in the archive iff one of its budgets
\* has reached zero (budgets only fall, so a request whose budgets are both
\* positive never had a zero budget).
C6_LivenessCorrectness ==
    /\ \A i \in ArchivedIdx : HasZeroBudget(archived_requests[i])
    /\ TickBoundary =>
           \A id \in 1..(next_uuid - 1) :
               /\ \E r \in AllRecords : r.id = id
               /\ id \in ArchivedIds
                     <=> \E r \in AllRecords : r.id = id /\ HasZeroBudget(r)

\* a boundary with an abandoned request and a served request in the archive
\* and a live request in the active list
C6_Witness ==
    /\ TickBoundary
    /\ \E i \in ArchivedIdx : archived_requests[i].remaining_waiting_time = 0
    /\ \E i \in ArchivedIdx : archived_requests[i].fulfillment_time = 0
    /\ Len(active_requests) >= 1

\* a waiting request with k ticks of waiting left, and its abandoned record
Waiting(id, k) ==
    [id |-> id, remaining_waiting_time |-> k, assigned_taxi |-> None,
     fulfillment_time |-> InitialFulfillmentTime]

\* zero taxis, arrival probability 1.0, room for at least one request
AbandonmentScenario ==
    Len(taxis) = 0 /\ request_spawn_chance = 100 /\ max_active_requests >= 1

\* C7: with zero taxis and arrival probability 1.0 no request is ever
\* matched and fulfillment_time stays 100.  The k-th request (k up to the
\* capacity) is admitted in tick k; at the boundary after tick a, for
\* a = k .. k+98, it is active with remaining_waiting_time 100 - (a-k+1), one
\* less per tick; at the end of tick k+99, its 100th tick, it is archived
\* with remaining_waiting_time 0, no taxi and fulfillment_time 100.
C7_Abandonment ==
    AbandonmentScenario =>
        /\ \A i \in ActiveIdx :
              /\ active_requests[i].assigned_taxi = None
              /\ active_requests[i].fulfillment_time = InitialFulfillmentTime
        /\ \A i \in ArchivedIdx :
              archived_requests[i] = Waiting(archived_requests[i].id, 0)
        /\ TickBoundary =>
              \A k \in 1..max_active_requests :
                  /\ age < k => k \notin ActiveIds \cup ArchivedIds
                  /\ (age >= k /\ age <= k + 98) =>
                        /\ \E i \in ActiveIdx :
                               active_requests[i]
                                   = Waiting(k, InitialWaitingTime - (age - k + 1))
                        /\ k \notin ArchivedIds
                  /\ age >= k + 99 =>
                        /\ archived_requests[k] = Waiting(k, 0)
                        /\ k \notin ActiveIds

\* the boundary at the end of the 100th tick of the first request: it has
\* just been archived as abandoned
C7_Witness ==
    /\ AbandonmentScenario
    /\ TickBoundary
    /\ age = 100
    /\ archived_requests = <<Waiting(1, 0)>>

\* a request in service on taxi 1 with k ticks of service left
InService(id, k) ==
    [id |-> id, remaining_waiting_time |-> InitialWaitingTime,
     assigned_taxi |-> 1, fulfillment_time |-> k]

\* capacity 1, one taxi, arrival probability 1.0
ServiceScenario ==
    Len(taxis) = 1 /\ request_spawn_chance = 100 /\ max_active_requests = 1

\* C8: with capacity 1, one taxi and arrival probability 1.0 the first
\* request arrives and is matched in tick 1; through tick 100 it is the only
\* request admitted; after each of the ticks 1..99 it is in service with
\* 100 - age ticks left and the taxi occupied; at the end of tick 100 it is
\* archived with fulfillment_time 0 and the taxi is free; the second request
\* is admitted in tick 101.
C8_Service ==
    ServiceScenario =>
        /\ (age = 1 /\ pc = "distribute") => active_requests = <<NewRequest(1)>>
        /\ (age = 1 /\ pc = "update") =>
              /\ active_requests = <<InService(1, InitialFulfillmentTime)>>
              /\ taxis[1].is_occupied
        /\ (age >= 1 /\ age <= 100 /\ ~(age = 1 /\ pc = "spawn")) => next_uuid = 2
        /\ (TickBoundary /\ age >= 1 /\ age <= 99) =>
              /\ active_requests = <<InService(1, InitialFulfillmentTime - age)>>
              /\ archived_requests = <<>>
              /\ taxis[1].is_occupied
        /\ (age = 100 /\ pc = "cleanup") =>
              /\ active_requests = <<InService(1, 0)>>
              /\ archived_requests = <<>>
        /\ (TickBoundary /\ age = 100) =>
              /\ active_requests = <<>>
              /\ archived_requests = <<InService(1, 0)>>
              /\ ~taxis[1].is_occupied
        /\ (age = 101 /\ pc = "distribute") =>
              /\ active_requests = <<NewRequest(2)>>
              /\ next_uuid = 3

\* tick 101 has admitted the second request, after the first was archived
C8_Witness ==
    /\ ServiceScenario
    /\ age = 101
    /\ pc = "distribute"
    /\ active_requests = <<NewRequest(2)>>
    /\ archived_requests = <<InService(1, 0)>>

\* the run is over: run_till_done returned or the process panicked
Terminated == pc = "done" \/ panic # "none"

C10_HorizonIsTickBudget ==
    /\ age <= runtime
    /\ runtime = 0 =>
          /\ age = 0
          /\ next_uuid = 1
          /\ active_requests = <<>>
          /\ archived_requests = <<>>

\* C11: a request that has a taxi keeps that same taxi id in every later
\* state in which it is active and in its archived record (never back to
\* None, never another taxi), and that taxi is occupied in every state in
\* which the request is active.
C11_NoReassignment ==
    /\ [](\A i \in ActiveIdx :
              active_requests[i].assigned_taxi # None =>
                  \E t \in TaxiIdx :
                      /\ taxis[t].id = active_requests[i].assigned_taxi
                      /\ taxis[t].is_occupied)
    /\ [][\A i \in ActiveIdx :
              active_requests[i].assigned_taxi # None =>
                  /\ \A j \in 1..Len(active_requests') :
                        SameRequestNext(i, j) =>
                            active_requests'[j].assigned_taxi
                                = active_requests[i].assigned_taxi
                  /\ \A j \in 1..Len(archived_requests') :
                        archived_requests'[j].id = active_requests[i].id =>
                            archived_requests'[j].assigned_taxi
                                = active_requests[i].assigned_taxi]_vars

\* a request that waited, was bound and was archived with its taxi, while
\* its successor holds the taxi
C11_Witness ==
    /\ TickBoundary
    /\ \E i \in ArchivedIdx :
          /\ archived_requests[i].assigned_taxi # None
          /\ archived_requests[i].remaining_waiting_time < InitialWaitingTime
    /\ \E i \in ActiveIdx :
          /\ active_requests[i].assigned_taxi # None
          /\ active_requests[i].fulfillment_time < InitialFulfillmentTime

\* C12 (as stated): the arrival step never fails: for every configured
\* probability, also one below 0 or above 1, the run never aborts in the
\* probability draw of maybe_spawn_request.
C12_ArrivalNeverFails == panic # "gen_bool"

\* C13: the `expect` of cleanup_requests never fires: the run never panics
\* there, and whenever cleanup_requests is about to process a dead request
\* with a taxi assigned, a taxi with that id is in the pool.
C13_TaxiAlwaysFound ==
    /\ panic # "expect_taxi"
    /\ pc = "cleanup" =>
           \A i \in ActiveIdx :
               (HasZeroBudget(active_requests[i])
                    /\ active_requests[i].assigned_taxi # None)
                   => \E t \in TaxiIdx :
                          taxis[t].id = active_requests[i].assigned_taxi

\* cleanup_requests has looked up and released the taxi of a served request
C13_Witness ==
    /\ TickBoundary
    /\ \E i \in ArchivedIdx : \E t \in TaxiIdx :
          /\ archived_requests[i].fulfillment_time = 0
          /\ archived_requests[i].assigned_taxi = taxis[t].id
          /\ ~taxis[t].is_occupied

WaitingIdx == {i \in ActiveIdx : active_requests[i].assigned_taxi = None}
FreeTaxis == {t \in TaxiIdx : ~taxis[t].is_occupied}
MinOf(a, b) == IF a <= b THEN a ELSE b

\* the waiting requests that the step binds to a taxi
BoundByStep ==
    {i \in WaitingIdx : active_requests'[i].assigned_taxi # None}

\* C14: right after the matching step no request is waiting while a taxi is
\* free; the step binds min(#waiting, #free) requests, and they are the
\* earliest waiting ones in arrival order.
C14_GreedyMatching ==
    /\ []((pc = "update" /\ panic = "none")
              => (WaitingIdx = {} \/ FreeTaxis = {}))
    /\ [][pc = "distribute" =>
              /\ Len(active_requests') = Len(active_requests)
              /\ Cardinality(BoundByStep)
                     = MinOf(Cardinality(WaitingIdx), Cardinality(FreeTaxis))
              /\ \A i \in BoundByStep : \A j \in WaitingIdx :
                     j < i => j \in BoundByStep]_vars

\* right after a matching step that bound a request which had been waiting
\* and left a later request waiting
C14_Witness ==
    /\ pc = "update"
    /\ \E i, j \in ActiveIdx :
          /\ i < j
          /\ active_requests[i].assigned_taxi # None
          /\ active_requests[i].fulfillment_time = InitialFulfillmentTime
          /\ active_requests[i].remaining_waiting_time < InitialWaitingTime
          /\ active_requests[j].assigned_taxi = None

\* the active requests admitted in the current tick
NewIdx == {i \in ActiveIdx : born[active_requests[i].id] = age}

\* at the end of its creation tick a request has one budget at 99 and the
\* other at 100: the service budget when it has a taxi, else the waiting one
AgedOnce ==
    TickBoundary =>
        \A i \in NewIdx :
            IF active_requests[i].assigned_taxi # None
            THEN /\ active_requests[i].fulfillment_time = InitialFulfillmentTime - 1
                 /\ active_requests[i].remaining_waiting_time = InitialWaitingTime
            ELSE /\ active_requests[i].remaining_waiting_time = InitialWaitingTime - 1
                 /\ active_requests[i].fulfillment_time = InitialFulfillmentTime

\* C15 (as stated): a request admitted in tick t ends the tick with exactly
\* one budget at 99, and it is fulfillment_time if a taxi was free in tick t
\* (so the matching step of tick t binds it), remaining_waiting_time
\* otherwise.
C15_AgedInCreationTick_AnyFreeTaxi ==
    /\ []AgedOnce
    /\ [][pc = "distribute" =>
              \A i \in NewIdx :
                  active_requests'[i].assigned_taxi # None <=> FreeTaxis # {}]_vars

\* C15 (amended): a request admitted in tick t ends the tick with exactly
\* one budget at 99, and it is fulfillment_time if the request was bound in
\* tick t, which happens iff more taxis were free than earlier requests were
\* waiting, remaining_waiting_time otherwise.
C15_AgedInCreationTick ==
    /\ []AgedOnce
    /\ [][pc = "distribute" =>
              \A i \in NewIdx :
                  active_requests'[i].assigned_taxi # None
                      <=> Cardinality(FreeTaxis)
                              > Cardinality({j \in WaitingIdx : j < i})]_vars

\* the end of a tick in which the free taxi went to a request that had been
\* waiting, and the request admitted in this tick was aged as waiting
C15_Witness ==
    /\ TickBoundary
    /\ \E i \in ActiveIdx : \E j \in NewIdx :
          /\ born[active_requests[i].id] < age
          /\ active_requests[i].assigned_taxi # None
          /\ active_requests[i].fulfillment_time = InitialFulfillmentTime - 1
          /\ active_requests[j].assigned_taxi = None
          /\ active_requests[j].remaining_waiting_time = InitialWaitingTime - 1

\* C16: the run never panics on (nor wraps) a budget subtraction: every
\* budget that update_requests is about to decrement is at least 1, and both
\* budgets of every active and archived request are within 0..100.
C16_NoUnderflow ==
    /\ panic # "overflow"
    /\ \A r \in AllRecords :
          /\ r.remaining_waiting_time \in 0..InitialWaitingTime
          /\ r.fulfillment_time \in 0..InitialFulfillmentTime
    /\ pc = "update" =>
          \A i \in ActiveIdx :
              IF active_requests[i].assigned_taxi # None
              THEN active_requests[i].fulfillment_time >= 1
              ELSE active_requests[i].remaining_waiting_time >= 1

\* update_requests is about to take the last tick off both a service budget
\* and a waiting budget
C16_Witness ==
    /\ pc = "update"
    /\ \E i \in ActiveIdx :
          /\ active_requests[i].assigned_taxi # None
          /\ active_requests[i].fulfillment_time = 1
    /\ \E i \in ActiveIdx :
          /\ active_requests[i].assigned_taxi = None
          /\ active_requests[i].remaining_waiting_time = 1

\* C17: after every matching step and at every tick boundary the assigned
\* requests form a prefix of the active list: no waiting request precedes a
\* request that has a taxi.
C17_FifoService ==
    (panic = "none" /\ pc \in {"update", "cleanup", "loop", "done"}) =>
        \A i, j \in ActiveIdx :
            (i < j /\ active_requests[j].assigned_taxi # None)
                => active_requests[i].assigned_taxi # None

\* after a matching step: the request that waited longest got the taxi and
\* precedes two requests that are still waiting
C17_Witness ==
    /\ pc = "update"
    /\ Len(active_requests) >= 2
    /\ active_requests[1].assigned_taxi # None
    /\ active_requests[1].remaining_waiting_time < InitialWaitingTime
    /\ active_requests[1].fulfillment_time = InitialFulfillmentTime
    /\ \A i \in 2..Len(active_requests) : active_requests[i].assigned_taxi = None

\* C18: every archived record has exactly one budget at zero: a record with
\* a taxi has fulfillment_time 0 and remaining_waiting_time >= 1, a record
\* without a taxi has remaining_waiting_time 0 and fulfillment_time 100.
C18_ArchivedShape ==
    \A i \in ArchivedIdx :
        LET r == archived_requests[i]
        IN /\ (r.remaining_waiting_time = 0) # (r.fulfillment_time = 0)
           /\ r.assigned_taxi # None <=> r.fulfillment_time = 0
           /\ r.assigned_taxi = None <=> r.remaining_waiting_time = 0
           /\ r.fulfillment_time = 0 => r.remaining_waiting_time >= 1
           /\ r.remaining_waiting_time = 0
                 => r.fulfillment_time = InitialFulfillmentTime

\* the archive holds an abandoned record and a served record that had waited
C18_Witness ==
    /\ \E i \in ArchivedIdx :
          /\ archived_requests[i].assigned_taxi = None
          /\ archived_requests[i].remaining_waiting_time = 0
    /\ \E i \in ArchivedIdx :
          /\ archived_requests[i].assigned_taxi # None
          /\ archived_requests[i].remaining_waiting_time \in 1..(InitialWaitingTime - 1)

\* the longest residence: 99 ticks waiting, then 100 ticks in service
MaxResidence == (InitialWaitingTime - 1) + InitialFulfillmentTime

\* the number of ticks request id has been through, the current one included
TicksSinceBirth(id) == age - born[id] + 1

\* C19: a request is active during at most 199 ticks, its creation tick
\* included: inside a tick every active request is in at most its 199th
\* tick, and every request whose 199th tick is over is archived (so a
\* request is archived whenever the run goes on that long).  An archived
\* record shows at most 99 ticks of waiting followed by exactly 100 ticks of
\* service, or exactly 100 ticks of waiting.
C19_BoundedResidence ==
    /\ panic = "none" =>
          \A i \in ActiveIdx :
              TicksSinceBirth(active_requests[i].id) <= MaxResidence
    /\ TickBoundary =>
          \A id \in 1..(next_uuid - 1) :
              TicksSinceBirth(id) >= MaxResidence => id \in ArchivedIds
    /\ \A i \in ArchivedIdx :
          LET r == archived_requests[i]
          IN \/ /\ r.assigned_taxi # None
                /\ r.fulfillment_time = 0
                /\ InitialWaitingTime - r.remaining_waiting_time
                       \in 0..(InitialWaitingTime - 1)
             \/ /\ r.assigned_taxi = None
                /\ r.remaining_waiting_time = 0
                /\ r.fulfillment_time = InitialFulfillmentTime

\* a request archived at the end of its 199th tick, after 99 ticks of
\* waiting and 100 ticks of service
C19_Witness ==
    /\ TickBoundary
    /\ \E i \in ArchivedIdx :
          /\ archived_requests[i].remaining_waiting_time = 1
          /\ archived_requests[i].fulfillment_time = 0
          /\ TicksSinceBirth(archived_requests[i].id) = MaxResidence

\* C20: every admitted request is in exactly one of the two lists, so the
\* number of admissions equals len(active) + len(archived); each step
\* leaves the archive as it is or appends to it.
C20_Conservation ==
    /\ [](panic = "none" =>
              /\ \A id \in 1..(next_uuid - 1) :
                    (id \in ActiveIds) # (id \in ArchivedIds)
              /\ ActiveIds \cup ArchivedIds = 1..(next_uuid - 1)
              /\ next_uuid - 1
                     = Len(active_requests) + Len(archived_requests))
    /\ [][/\ Len(archived_requests') >= Len(archived_requests)
          /\ SubSeq(archived_requests', 1, Len(archived_requests))
                 = archived_requests]_vars

\* the archive was appended to in two different ticks and a request is active
C20_Witness ==
    /\ Len(archived_requests) >= 2
    /\ born[archived_requests[1].id] < born[archived_requests[2].id]
    /\ Len(active_requests) >= 1
    /\ next_uuid - 1 = Len(active_requests) + Len(archived_requests)

====
